---- MODULE Spec2Model ----
(***************************************************************************)
(* Model of the pg command of nu_plugin_pg (src/main.rs): one invocation   *)
(* of PgCommand::run, from reading its inputs to returning a Value or a    *)
(* LabeledError, and of execute_query, the row decoder it calls.           *)
(*                                                                         *)
(* Spec        one invocation of PgCommand::run, statement by statement.   *)
(* SpecDecode  execute_query applied to every bounded database response.   *)
(***************************************************************************)
EXTENDS Integers, Sequences, FiniteSets, TLC

VARIABLES
    pc,             \* position of PgCommand::run
    query,          \* args.query: the script, a sequence of statement texts
    input,          \* the pipeline input Value handed to run
    sslmode,        \* ssl mode of the parsed PG_URL
    attempts,       \* transports the connection call tried, with their outcome
    client,         \* "none" | "open"
    stmts,          \* parse_result.protobuf.stmts
    i,              \* index of the statement the loop is at (1-based)
    output_values,  \* the output accumulator of run
    executed,       \* statements sent to the database, in sending order
    channels,       \* copy-in channels opened, with what was written to each
    outcomes,       \* per statement handled by the loop: how it ended
    result,         \* what run returned
    dq_response,    \* SpecDecode: the database response handed to execute_query
    dq_result       \* SpecDecode: what execute_query returned

vars == << pc, query, input, sslmode, attempts, client, stmts, i, output_values,
           executed, channels, outcomes, result, dq_response, dq_result >>

\* ------------------------------------------------------------------ bounds

MaxStmts == 3
MaxCols == 2
MaxRows == 2

\* ------------------------------------------------------- nu_protocol Value

Value_nothing == [tag |-> "nothing", val |-> <<>>]

Value_int(v) == [tag |-> "int", val |-> v]

Value_string(v) == [tag |-> "string", val |-> v]

Value_bool(v) == [tag |-> "bool", val |-> v]

Value_float(v) == [tag |-> "float", val |-> v]

Value_date(v) == [tag |-> "date", val |-> v]

Value_duration(v) == [tag |-> "duration", val |-> v]

Value_record(rec) == [tag |-> "record", val |-> rec]

Value_list(vals) == [tag |-> "list", val |-> vals]

\* Record::insert: replaces the value of an existing field of that name in
\* place, and appends a new field otherwise.
Record_insert_push(rec, name, value) == Append(rec, [col |-> name, val |-> value])

Record_insert(rec, name, value) ==
    IF \E j \in 1..Len(rec) : rec[j].col = name
    THEN [j \in 1..Len(rec) |->
            IF rec[j].col = name THEN [col |-> name, val |-> value] ELSE rec[j]]
    ELSE Append(rec, [col |-> name, val |-> value])

\* ------------------------------------------------------------ LabeledError

NoError == [msg |-> <<>>, code |-> ""]

LabeledError_new(msg) == [msg |-> msg, code |-> ""]

Ok(value) == [ok |-> TRUE, value |-> value, err |-> NoError]

Err(error) == [ok |-> FALSE, value |-> Value_nothing, err |-> error]

\* postgres::Error: a database error carries the server's message and
\* SQLSTATE code, any other error only its own text.
DbError == [db |-> TRUE, text |-> "relation does not exist", code |-> "42P01"]

IoError == [db |-> FALSE, text |-> "connection closed", code |-> ""]

\* no error
NoPgError == [db |-> FALSE, text |-> "", code |-> ""]

PgErrors == {DbError, IoError}

from_pg_error(err) ==
    IF ~err.db
    THEN LabeledError_new(<<"error", err.text>>)
    ELSE [msg |-> <<err.text>>, code |-> err.code]

\* ------------------------------------------------------------- row decoder

\* The arm of the match on the column's wire type.
TypeArm(type) ==
    CASE type \in {"text", "varchar", "bpchar", "name"} -> "string"
      [] type = "bool" -> "bool"
      [] type \in {"char", "int2", "int4", "int8"} -> "int"
      [] type \in {"float4", "float8"} -> "float"
      [] type \in {"json", "jsonb"} -> "json"
      [] type = "timestamptz" -> "date"
      [] type = "timestamp" -> "timestamp"
      [] type = "time" -> "time"
      [] type = "oid" -> "int"
      [] OTHER -> "unsupported"

\* A wire cell is [null, v]: SQL NULL, or the payload v; mapped is f applied
\* to the payload.
row_get_opt(cell, mapped) == IF cell.null THEN Value_nothing ELSE mapped

TimestampRecord(v) ==
    Value_record(<< [col |-> "year", val |-> Value_int(<<"year", v>>)],
                    [col |-> "month", val |-> Value_int(<<"month", v>>)],
                    [col |-> "day", val |-> Value_int(<<"day", v>>)],
                    [col |-> "hour", val |-> Value_int(<<"hour", v>>)],
                    [col |-> "minute", val |-> Value_int(<<"minute", v>>)],
                    [col |-> "second", val |-> Value_int(<<"second", v>>)],
                    [col |-> "nanosecond", val |-> Value_int(<<"nanosecond", v>>)] >>)

TimeRecord(v) ==
    Value_record(<< [col |-> "hour", val |-> Value_duration(<<"hour", v>>)],
                    [col |-> "minute", val |-> Value_int(<<"minute", v>>)],
                    [col |-> "second", val |-> Value_int(<<"second", v>>)],
                    [col |-> "nanosecond", val |-> Value_int(<<"nanosecond", v>>)] >>)

\* json_to_nu on a JSON document [kind, v]; a number also tells whether it
\* is an i64 or an f64 (as); an object is a sequence of [k, v] members.
RECURSIVE json_to_nu(_)
json_to_nu(value) ==
    CASE value.kind = "null" -> Value_nothing
      [] value.kind = "bool" -> Value_bool(value.v)
      [] value.kind = "number" ->
            IF value.as = "i64" THEN Value_int(value.v)
            ELSE IF value.as = "f64" THEN Value_float(value.v)
            ELSE Value_string(value.v)
      [] value.kind = "string" -> Value_string(value.v)
      [] value.kind = "array" ->
            Value_list([j \in 1..Len(value.v) |-> json_to_nu(value.v[j])])
      [] value.kind = "object" ->
            LET RECURSIVE Members(_, _)
                Members(j, record) ==
                    IF j > Len(value.v) THEN record
                    ELSE Members(j + 1,
                            Record_insert(record, value.v[j].k, json_to_nu(value.v[j].v)))
            IN  Value_record(Members(1, <<>>))

\* The value a supported column decodes to.
DecodeCell(type, cell) ==
    CASE TypeArm(type) = "string" -> row_get_opt(cell, Value_string(cell.v))
      [] TypeArm(type) = "bool" -> row_get_opt(cell, Value_bool(cell.v))
      [] TypeArm(type) = "int" -> row_get_opt(cell, Value_int(cell.v))
      [] TypeArm(type) = "float" -> row_get_opt(cell, Value_float(cell.v))
      [] TypeArm(type) = "json" -> row_get_opt(cell, json_to_nu(cell.v))
      [] TypeArm(type) = "date" -> row_get_opt(cell, Value_date(cell.v))
      [] TypeArm(type) = "timestamp" -> row_get_opt(cell, TimestampRecord(cell.v))
      [] TypeArm(type) = "time" -> row_get_opt(cell, TimeRecord(cell.v))

UnsupportedTypeError(col) ==
    LabeledError_new(<<"column", col.name, "has unsupported type", col.type>>)

RECURSIVE DecodeColsSkip(_, _, _, _)
DecodeColsSkip(columns, row, c, nu_row) ==
    IF c > Len(columns) THEN Ok(Value_record(nu_row))
    ELSE IF TypeArm(columns[c].type) = "unsupported"
    THEN DecodeColsSkip(columns, row, c + 1, nu_row)
    ELSE DecodeColsSkip(columns, row, c + 1,
            Record_insert(nu_row, columns[c].name, DecodeCell(columns[c].type, row[c])))

\* The loop over the columns of one row, from column c on, with the record
\* built so far.
RECURSIVE DecodeCols(_, _, _, _)
DecodeCols(columns, row, c, nu_row) ==
    IF c > Len(columns) THEN Ok(Value_record(nu_row))
    ELSE IF TypeArm(columns[c].type) = "unsupported"
    THEN Err(UnsupportedTypeError(columns[c]))
    ELSE DecodeCols(columns, row, c + 1,
            Record_insert(nu_row, columns[c].name, DecodeCell(columns[c].type, row[c])))

\* The loop over the row stream, from item r on. The stream yields the rows
\* of the response and then, when tail_err is set, an error item.
RECURSIVE DecodeRows(_, _, _)
DecodeRows(resp, r, nu_rows) ==
    IF r > Len(resp.rows)
    THEN IF resp.tail_err THEN Err(from_pg_error(resp.err))
         ELSE Ok(Value_list(nu_rows))
    ELSE LET rec == DecodeCols(resp.columns, resp.rows[r], 1, <<>>)
         IN  IF rec.ok THEN DecodeRows(resp, r + 1, Append(nu_rows, rec.value))
             ELSE rec

\* execute_query on the response the database gives to query_raw.
execute_query(resp) ==
    IF resp.fail THEN Err(from_pg_error(resp.err))
    ELSE DecodeRows(resp, 1, <<>>)

\* ------------------------------------------------- database responses

Names == {"a", "b"}

ColTypes == {"int4", "text", "uuid"}

Columns == [name : Names, type : ColTypes]

ColumnSeqs == UNION {[1..k -> Columns] : k \in 0..MaxCols}

\* The cell of row r, column c of the table a response is read from; the
\* cells of row nullRow are SQL NULL.
WireCell(r, c, nullRow) == [null |-> r = nullRow, v |-> 10 * r + c]

WireRows(k, n, nullRow) == [r \in 1..n |-> [c \in 1..k |-> WireCell(r, c, nullRow)]]

\* query_raw failed: no columns, no rows.
FailedResponses ==
    {[fail |-> TRUE, err |-> e, columns |-> <<>>, rows |-> <<>>, tail_err |-> FALSE] :
        e \in PgErrors}

\* query_raw succeeded: n rows of the given columns, all of them delivered.
RowResponses ==
    {[fail |-> FALSE, err |-> NoPgError, columns |-> cols,
      rows |-> WireRows(Len(cols), nr[1], nr[2]), tail_err |-> FALSE] :
        cols \in ColumnSeqs,
        nr \in {x \in (0..MaxRows) \X (0..MaxRows) : x[2] <= x[1]}}

\* query_raw succeeded and the row stream broke after the rows delivered.
BrokenResponses ==
    {[fail |-> FALSE, err |-> e, columns |-> cols,
      rows |-> WireRows(Len(cols), n, 0), tail_err |-> TRUE] :
        cols \in ColumnSeqs, n \in 0..MaxRows, e \in PgErrors}

Responses == FailedResponses \cup RowResponses \cup BrokenResponses

\* A statement that returns no rows: the command completes with no columns.
CommandComplete ==
    [fail |-> FALSE, err |-> NoPgError, columns |-> <<>>, rows |-> <<>>, tail_err |-> FALSE]

ColsOf(names, types) == [c \in 1..Len(names) |-> [name |-> names[c], type |-> types[c]]]

RowsOf(cols, n) ==
    [fail |-> FALSE, err |-> NoPgError, columns |-> cols,
     rows |-> WireRows(Len(cols), n, 0), tail_err |-> FALSE]

\* The responses a statement that may return rows is run against in Spec.
SampleResponses ==
    { [fail |-> TRUE, err |-> DbError, columns |-> <<>>, rows |-> <<>>, tail_err |-> FALSE],
      CommandComplete,
      RowsOf(ColsOf(<<"a">>, <<"int4">>), 1),
      RowsOf(ColsOf(<<"a", "a">>, <<"int4", "text">>), 2),
      RowsOf(ColsOf(<<"a">>, <<"uuid">>), 0),
      RowsOf(ColsOf(<<"a", "b">>, <<"int4", "uuid">>), 1),
      [fail |-> FALSE, err |-> IoError, columns |-> ColsOf(<<"a">>, <<"int4">>),
       rows |-> WireRows(1, 1, 0), tail_err |-> TRUE] }

\* ------------------------------------------------------- the invocation

\* A statement text of the script: what it parses to, or text that does not
\* parse. deparse_ok: whether the parsed node can be re-serialised.
Stmt(node, from, program, filename, deparse_ok) ==
    [node |-> node, is_from |-> from, is_program |-> program,
     filename |-> filename, deparse_ok |-> deparse_ok]

Garbage == Stmt("garbage", FALSE, FALSE, "", FALSE)

CopyStmts ==
    {Stmt("CopyStmt", f, FALSE, fn, TRUE) : f \in BOOLEAN, fn \in {"", "/tmp/f"}}
    \cup {Stmt("CopyStmt", f, TRUE, "cmd", TRUE) : f \in BOOLEAN}

StmtTexts ==
    {Stmt("SelectStmt", FALSE, FALSE, "", TRUE),
     Stmt("InsertStmt", FALSE, FALSE, "", TRUE),
     Stmt("InsertStmt", FALSE, FALSE, "", FALSE),
     Garbage} \cup CopyStmts

Scripts == UNION {[1..n -> StmtTexts] : n \in 0..MaxStmts}

Malformed(q) == \E j \in 1..Len(q) : q[j] = Garbage

\* pg_query::parse: all of the script or nothing.
pg_query_parse_lenient(q) ==
    [ok |-> TRUE,
     stmts |-> IF Malformed(q)
               THEN SubSeq(q, 1, (CHOOSE j \in 1..Len(q) :
                        q[j] = Garbage /\ \A m \in 1..(j - 1) : q[m] # Garbage) - 1)
               ELSE q]

pg_query_parse(q) ==
    IF Malformed(q) THEN [ok |-> FALSE, stmts |-> <<>>]
    ELSE [ok |-> TRUE, stmts |-> q]

SyntaxError == LabeledError_new(<<"syntax error">>)

DeparseError == LabeledError_new(<<"deparse error">>)

CopyToStdoutError == LabeledError_new(<<"COPY ... TO STDOUT is not supported">>)

\* err.to_string() of a postgres::Error
to_string(err) == IF err.db THEN <<"db error", err.text>> ELSE <<"error", err.text>>

\* The pipeline inputs: nothing, a string (its code points), binary, a list.
Value_binary(v) == [tag |-> "binary", val |-> v]

InputValues ==
    {Value_nothing, Value_string(<<104, 233>>), Value_binary(<<0, 255>>), Value_list(<<>>)}

\* str::as_bytes: the UTF-8 encoding of the code points (below U+0800).
RECURSIVE as_bytes(_)
as_bytes(s) ==
    IF s = <<>> THEN <<>>
    ELSE (IF Head(s) < 128 THEN <<Head(s)>>
          ELSE <<192 + (Head(s) \div 64), 128 + (Head(s) % 64)>>) \o as_bytes(Tail(s))

\* The match on the input Value: the bytes fed to a copy-in, or no match.
InputAccepted(v) == v.tag \in {"nothing", "string", "binary"}

InputBytes(v) ==
    CASE v.tag = "nothing" -> <<>>
      [] v.tag = "string" -> as_bytes(v.val)
      [] v.tag = "binary" -> v.val

InputTypeError(v) ==
    LabeledError_new(<<"expected string or binary input, but got", v.tag>>)

\* load_config: PG_URL missing, not a string, not a connection URL, or parsed.
ConfigOutcomes == {"ok", "missing", "not_string", "malformed"}

ConfigError(c) == LabeledError_new(<<"PG_URL", c>>)

SslModes == {"disable", "prefer", "require"}

\* ----------------------------------------------------------- connecting

TlsRefused == [db |-> FALSE, text |-> "server does not support TLS", code |-> ""]

TlsHandshake == [db |-> FALSE, text |-> "error performing TLS handshake", code |-> ""]

AuthError == [db |-> TRUE, text |-> "password authentication failed", code |-> "28P01"]

\* What the server and the network do to one connection call: the server's
\* answer to the SSLRequest, the TLS handshake, and the session start-up.
ConnectEnvs ==
    [ssl : {"S", "N"}, handshake : BOOLEAN, startup : {NoPgError, AuthError, IoError}]

Attempt(transport, err) == [transport |-> transport, ok |-> err = NoPgError, err |-> err]

\* config.connect(tls_connector()): the one connection call of run. The
\* postgres client asks for TLS unless the mode is disable; a server that
\* refuses TLS is talked to in plaintext under prefer and is an error under
\* require; a failed handshake is an error under both. It returns the
\* session or ONE postgres::Error.
config_connect(mode, env) ==
    IF mode = "disable"
    THEN [attempts |-> <<Attempt("plain", env.startup)>>, err |-> env.startup]
    ELSE IF env.ssl = "N"
    THEN IF mode = "require"
         THEN [attempts |-> <<Attempt("tls", TlsRefused)>>, err |-> TlsRefused]
         ELSE [attempts |-> <<Attempt("tls", TlsRefused), Attempt("plain", env.startup)>>,
               err |-> env.startup]
    ELSE IF ~env.handshake
    THEN [attempts |-> <<Attempt("tls", TlsHandshake)>>, err |-> TlsHandshake]
    ELSE [attempts |-> <<Attempt("tls", env.startup)>>, err |-> env.startup]

\* ------------------------------------------------------------- dispatch

\* The match on the statement's node, and the two tests on a CopyStmt.
RouteCopyOutExecuted(stmt) ==
    IF stmt.node = "SelectStmt" THEN "select"
    ELSE IF stmt.node = "CopyStmt"
    THEN IF ~stmt.is_from \/ stmt.is_program THEN "copy_execute"
         ELSE "copy_in"
    ELSE "other"

RouteByTarget(stmt) ==
    IF stmt.node = "SelectStmt" THEN "select"
    ELSE IF stmt.node = "CopyStmt"
    THEN IF stmt.is_program THEN "copy_execute"
         ELSE IF stmt.filename # "" THEN "copy_execute"
         ELSE IF ~stmt.is_from THEN "copy_unsupported"
         ELSE "copy_in"
    ELSE "other"

Route(stmt) ==
    IF stmt.node = "SelectStmt" THEN "select"
    ELSE IF stmt.node = "CopyStmt"
    THEN IF ~stmt.is_from /\ ~stmt.is_program THEN "copy_unsupported"
         ELSE IF ~stmt.is_from \/ stmt.is_program THEN "copy_execute"
         ELSE "copy_in"
    ELSE "other"

\* The responses the database can give to a statement: a COPY returns no rows.
ResponsesFor(stmt) ==
    IF stmt.node = "CopyStmt"
    THEN {r \in SampleResponses : r.fail} \cup {CommandComplete}
    ELSE SampleResponses

\* The `?` operator: on an error the function returns, otherwise it goes on.
QuestionMarkIgnored(ok, next) == next

QuestionMark(ok, next) == IF ok THEN next ELSE "done"

\* The final if: one output is returned as it is, any other number as a list.
AggregateWrapped(values) == Value_list(values)

Aggregate(values) ==
    IF Len(values) = 1 THEN values[1] ELSE Value_list(values)

Outcome(idx, path, r) ==
    [idx |-> idx, path |-> path, ok |-> r.ok, value |-> r.value, err |-> r.err]

Sent(idx, via) == [idx |-> idx, via |-> via]

Pending == [ok |-> FALSE, value |-> Value_nothing, err |-> NoError]

NoResponse == CommandComplete

AtStmt == pc = "loop" /\ i <= Len(stmts)

\* What every step of the loop does with the outcome r of statement i.
Advance(path, r) ==
    /\ outcomes' = Append(outcomes, Outcome(i, path, r))
    /\ pc' = QuestionMark(r.ok, "loop")
    /\ i' = IF pc' = "loop" THEN i + 1 ELSE i
    /\ result' = IF r.ok THEN result ELSE Err(r.err)

\* write_all on the copy-in channel, which accepts n bytes before it
\* breaks (n = Len(bytes): it does not break).
write_once(bytes, n) ==
    [written |-> SubSeq(bytes, 1, IF n < 1 THEN n ELSE 1), ok |-> TRUE]

write_all(bytes, n) ==
    [written |-> SubSeq(bytes, 1, n), ok |-> n >= Len(bytes)]

\* What the database does to a copy-in of the bytes: whether copy_in opens
\* the channel, how many bytes the channel accepts, whether finish succeeds.
\* A COPY FROM a server-side file never opens a channel to the client.
CopyInEnvs(stmt, bytes) ==
    {[open |-> FALSE, accepts |-> 0, finish |-> FALSE]}
    \cup (IF stmt.filename = ""
          THEN [open : {TRUE}, accepts : 0..Len(bytes), finish : BOOLEAN]
          ELSE {})

\* copy_in, write_all and finish, each followed by `?`.
CopyIn(bytes, env) ==
    IF ~env.open
    THEN [opened |-> FALSE, written |-> <<>>, finished |-> FALSE,
          r |-> Err(LabeledError_new(to_string(DbError)))]
    ELSE LET w == write_all(bytes, env.accepts)
         IN  IF ~w.ok
             THEN [opened |-> TRUE, written |-> w.written, finished |-> FALSE,
                   r |-> Err(LabeledError_new(to_string(IoError)))]
             ELSE IF ~env.finish
             THEN [opened |-> TRUE, written |-> w.written, finished |-> FALSE,
                   r |-> Err(LabeledError_new(to_string(DbError)))]
             ELSE [opened |-> TRUE, written |-> w.written, finished |-> TRUE,
                   r |-> Ok(Value_nothing)]

\* ---------------------------------------------------------------- actions

Init ==
    /\ pc = "start"
    /\ query \in Scripts
    /\ input \in InputValues
    /\ sslmode = "unset"
    /\ attempts = <<>>
    /\ client = "none"
    /\ stmts = <<>>
    /\ i = 0
    /\ output_values = <<>>
    /\ executed = <<>>
    /\ channels = <<>>
    /\ outcomes = <<>>
    /\ result = Pending
    /\ dq_response = NoResponse
    /\ dq_result = Pending

\* Args::parse, load_config and the match on the input.
ReadInputs ==
    /\ pc = "start"
    /\ \E cfg \in ConfigOutcomes, mode \in SslModes :
        IF cfg # "ok"
        THEN /\ result' = Err(ConfigError(cfg))
             /\ pc' = QuestionMark(FALSE, "connect")
             /\ UNCHANGED sslmode
        ELSE /\ sslmode' = mode
             /\ result' = IF InputAccepted(input) THEN result
                          ELSE Err(InputTypeError(input))
             /\ pc' = QuestionMark(InputAccepted(input), "connect")
    /\ UNCHANGED << query, input, attempts, client, stmts, i, output_values,
                    executed, channels, outcomes, dq_response, dq_result >>

\* config.connect(tls_connector()).map_err(from_pg_error)?
Connect ==
    /\ pc = "connect"
    /\ \E env \in ConnectEnvs :
        LET c == config_connect(sslmode, env)
        IN  /\ attempts' = c.attempts
            /\ client' = IF c.err = NoPgError THEN "open" ELSE "none"
            /\ result' = IF c.err = NoPgError THEN result ELSE Err(from_pg_error(c.err))
            /\ pc' = QuestionMark(c.err = NoPgError, "parse")
    /\ UNCHANGED << query, input, sslmode, stmts, i, output_values, executed,
                    channels, outcomes, dq_response, dq_result >>

\* pg_query::parse(&args.query).map_err(..)?
Parse ==
    /\ pc = "parse"
    /\ LET p == pg_query_parse(query)
       IN  /\ stmts' = p.stmts
           /\ result' = IF p.ok THEN result ELSE Err(SyntaxError)
           /\ pc' = QuestionMark(p.ok, "loop")
    /\ i' = 1
    /\ UNCHANGED << query, input, sslmode, attempts, client, output_values,
                    executed, channels, outcomes, dq_response, dq_result >>

\* stmt.deparse().map_err(..)? fails
StmtDeparseFail ==
    /\ AtStmt
    /\ ~stmts[i].deparse_ok
    /\ Advance("deparse", Err(DeparseError))
    /\ UNCHANGED << query, input, sslmode, attempts, client, stmts, output_values,
                    executed, channels, dq_response, dq_result >>

\* NodeEnum::SelectStmt: execute_query, and push its value
StmtSelect ==
    /\ AtStmt
    /\ stmts[i].deparse_ok
    /\ Route(stmts[i]) = "select"
    /\ \E resp \in ResponsesFor(stmts[i]) :
        LET r == execute_query(resp)
        IN  /\ executed' = Append(executed, Sent(i, "query_raw"))
            /\ output_values' = IF r.ok THEN Append(output_values, r.value)
                                ELSE output_values
            /\ Advance("select", r)
    /\ UNCHANGED << query, input, sslmode, attempts, client, stmts, channels,
                    dq_response, dq_result >>

\* NodeEnum::CopyStmt, neither from nor program: rejected
StmtCopyRejected ==
    /\ AtStmt
    /\ stmts[i].deparse_ok
    /\ Route(stmts[i]) = "copy_unsupported"
    /\ Advance("rejected", Err(CopyToStdoutError))
    /\ UNCHANGED << query, input, sslmode, attempts, client, stmts, output_values,
                    executed, channels, dq_response, dq_result >>

\* NodeEnum::CopyStmt, to or from a program: execute_query, value dropped
StmtCopyExecute ==
    /\ AtStmt
    /\ stmts[i].deparse_ok
    /\ Route(stmts[i]) = "copy_execute"
    /\ \E resp \in ResponsesFor(stmts[i]) :
        LET r == execute_query(resp)
        IN  /\ executed' = Append(executed, Sent(i, "query_raw"))
            /\ Advance("execute", IF r.ok THEN Ok(Value_nothing) ELSE r)
    /\ UNCHANGED << query, input, sslmode, attempts, client, stmts, output_values,
                    channels, dq_response, dq_result >>

\* NodeEnum::CopyStmt, from and not program: the copy-in channel
StmtCopyIn ==
    /\ AtStmt
    /\ stmts[i].deparse_ok
    /\ Route(stmts[i]) = "copy_in"
    /\ \E env \in CopyInEnvs(stmts[i], InputBytes(input)) :
        LET c == CopyIn(InputBytes(input), env)
        IN  /\ executed' = Append(executed, Sent(i, "copy_in"))
            /\ channels' = IF c.opened
                           THEN Append(channels, [idx |-> i, written |-> c.written,
                                                  finished |-> c.finished])
                           ELSE channels
            /\ Advance("copy_in", c.r)
    /\ UNCHANGED << query, input, sslmode, attempts, client, stmts, output_values,
                    dq_response, dq_result >>

\* any other node: execute_query, value dropped
StmtOther ==
    /\ AtStmt
    /\ stmts[i].deparse_ok
    /\ Route(stmts[i]) = "other"
    /\ \E resp \in ResponsesFor(stmts[i]) :
        LET r == execute_query(resp)
        IN  /\ executed' = Append(executed, Sent(i, "query_raw"))
            /\ Advance("execute", IF r.ok THEN Ok(Value_nothing) ELSE r)
    /\ UNCHANGED << query, input, sslmode, attempts, client, stmts, output_values,
                    channels, dq_response, dq_result >>

\* after the loop: the aggregated value is returned
Finish ==
    /\ pc = "loop"
    /\ i > Len(stmts)
    /\ result' = Ok(Aggregate(output_values))
    /\ pc' = "done"
    /\ UNCHANGED << query, input, sslmode, attempts, client, stmts, i, output_values,
                    executed, channels, outcomes, dq_response, dq_result >>

Next ==
    \/ ReadInputs
    \/ Connect
    \/ Parse
    \/ StmtDeparseFail
    \/ StmtSelect
    \/ StmtCopyRejected
    \/ StmtCopyExecute
    \/ StmtCopyIn
    \/ StmtOther
    \/ Finish

Spec == Init /\ [][Next]_vars

\* ------------------------------------------- execute_query on its own

InitDecode ==
    /\ pc = "decode"
    /\ dq_response \in Responses
    /\ dq_result = Pending
    /\ query = <<>>
    /\ input = Value_nothing
    /\ sslmode = "unset"
    /\ attempts = <<>>
    /\ client = "open"
    /\ stmts = <<>>
    /\ i = 0
    /\ output_values = <<>>
    /\ executed = <<>>
    /\ channels = <<>>
    /\ outcomes = <<>>
    /\ result = Pending

DecodeQuery ==
    /\ pc = "decode"
    /\ dq_result' = execute_query(dq_response)
    /\ pc' = "decoded"
    /\ UNCHANGED << query, input, sslmode, attempts, client, stmts, i, output_values,
                    executed, channels, outcomes, result, dq_response >>

NextDecode == DecodeQuery

SpecDecode == InitDecode /\ [][NextDecode]_vars

\* ------------------------------------------------------------ properties

Last(seq) == seq[Len(seq)]

IsSelectOutput(o) == stmts[o.idx].node = "SelectStmt" /\ o.ok

\* The result lists of the row-producing statements, in source order.
SelectLists ==
    LET sel == SelectSeq(outcomes, IsSelectOutput)
    IN  [j \in 1..Len(sel) |-> sel[j].value]

IsCopyOut(stmt) == stmt.node = "CopyStmt" /\ ~stmt.is_from /\ ~stmt.is_program

IsCopyIn(stmt) == stmt.node = "CopyStmt" /\ stmt.is_from /\ ~stmt.is_program

SentIdx == {executed[j].idx : j \in 1..Len(executed)}

\* C1: a run that completes returns, of the result lists of its row-producing
\* statements in source order, the one list itself when there is exactly one,
\* the list of the lists when there are two or more, and the empty list when
\* there is none.
C1_Aggregation ==
    (pc = "done" /\ result.ok) =>
        /\ Len(outcomes) = Len(stmts)
        /\ Len(SelectLists) = 1 => result.value = SelectLists[1]
        /\ Len(SelectLists) >= 2 => result.value = Value_list(SelectLists)
        /\ Len(SelectLists) = 0 => result.value = Value_list(<<>>)

\* One row-producing statement with rows, beside another statement: its list
\* of records is the result.
C1_Witness ==
    /\ pc = "done"
    /\ result.ok
    /\ Len(stmts) >= 2
    /\ Len(SelectLists) = 1
    /\ Len(SelectLists[1].val) = 2
    /\ result.value.tag = "list"
    /\ result.value.val[1].tag = "record"

\* C2: a script that does not parse has none of its statements sent to the
\* database, whatever their position, and the call ends in an error; a call
\* that ends with the syntax error has executed nothing.
C2_NoPartialExecution ==
    /\ Malformed(query) =>
        /\ executed = <<>>
        /\ channels = <<>>
        /\ outcomes = <<>>
        /\ pc = "done" => ~result.ok
    /\ (pc = "done" /\ result = Err(SyntaxError)) => executed = <<>>

\* A well-formed guard statement first, text that does not parse after it,
\* and the call ended with the syntax error on an open connection.
C2_Witness ==
    /\ pc = "done"
    /\ result = Err(SyntaxError)
    /\ client = "open"
    /\ Len(query) >= 2
    /\ query[1] # Garbage
    /\ query[1].deparse_ok

\* C3: statements are handled one at a time in source order; only the last
\* one handled can have failed, and then the call has returned that
\* statement's error, nothing after it has been sent to the database, and
\* every statement before it has been sent and stays sent.
C3_InOrderAbortOnFailure ==
    /\ \A j \in 1..Len(outcomes) : outcomes[j].idx = j
    /\ \A j \in 1..Len(executed) :
        /\ executed[j].idx <= Len(outcomes)
        /\ j > 1 => executed[j - 1].idx < executed[j].idx
    /\ \A j \in 1..(Len(outcomes) - 1) : outcomes[j].ok /\ j \in SentIdx
    /\ (outcomes # <<>> /\ ~Last(outcomes).ok) =>
        /\ pc = "done"
        /\ result = Err(Last(outcomes).err)
        /\ Len(outcomes) < Len(stmts) =>
            \A j \in (Len(outcomes) + 1)..Len(stmts) : j \notin SentIdx

\* The second of three statements failed at the server: the first was sent,
\* the third never.
C3_Witness ==
    /\ pc = "done"
    /\ Len(stmts) = 3
    /\ Len(outcomes) = 2
    /\ ~outcomes[2].ok
    /\ SentIdx = {1, 2}
    /\ result = Err(outcomes[2].err)

\* C4: a bulk-copy-in statement that succeeds has opened a channel, written
\* all of the input bytes to it and finished it; and the output accumulator
\* holds one entry per row-producing statement that succeeded, none for a
\* copy-in.
C4_CopyInConsumesInput ==
    /\ \A j \in 1..Len(outcomes) :
        (IsCopyIn(stmts[j]) /\ outcomes[j].ok) =>
            \E k \in 1..Len(channels) :
                /\ channels[k].idx = j
                /\ channels[k].written = InputBytes(input)
                /\ channels[k].finished
    /\ Len(output_values) =
        Cardinality({j \in 1..Len(outcomes) : IsSelectOutput(outcomes[j])})

\* A copy-in of a three-byte input completed and the call returned no rows.
C4_Witness ==
    /\ pc = "done"
    /\ result = Ok(Value_list(<<>>))
    /\ \E k \in 1..Len(channels) :
        /\ channels[k].finished
        /\ channels[k].written = <<104, 195, 169>>
        /\ IsCopyIn(stmts[channels[k].idx])

C6_NoDecodeOnExecutePath ==
    \A j \in 1..Len(outcomes) :
        (stmts[j].node # "SelectStmt" /\ ~IsCopyIn(stmts[j])) =>
            \A col \in Columns : outcomes[j].err # UnsupportedTypeError(col)

\* C8: under prefer the TLS attempt comes first, a failed TLS attempt is
\* followed by a plaintext attempt, and when both failed the returned error
\* holds the message of each.
C8_PreferKeepsBothFailures ==
    (sslmode = "prefer" /\ attempts # <<>>) =>
        /\ attempts[1].transport = "tls"
        /\ ~attempts[1].ok =>
            /\ Len(attempts) = 2
            /\ attempts[2].transport = "plain"
        /\ (\A k \in 1..Len(attempts) : ~attempts[k].ok) =>
            \A k \in 1..Len(attempts) :
                \E m \in 1..Len(result.err.msg) : result.err.msg[m] = attempts[k].err.text

\* C10: the route of a COPY statement is decided by is_from and is_program
\* alone: rejected when neither is set, the plain execute path when
\* is_program is set, the copy-in channel fed with the input otherwise; one
\* route per statement.
CopyRoute(stmt) ==
    IF ~stmt.is_from /\ ~stmt.is_program THEN "rejected"
    ELSE IF stmt.is_program THEN "execute"
    ELSE "copy_in"

Decoded == pc = "decoded" /\ ~dq_response.fail

DqColumns == dq_response.columns

DqRows == dq_response.rows

Unsupported == {c \in 1..Len(DqColumns) : TypeArm(DqColumns[c].type) = "unsupported"}

\* The columns that are the first of their name, and the last column that
\* has the name of column c.
FirstOfName == {c \in 1..Len(DqColumns) :
                    \A d \in 1..(c - 1) : DqColumns[d].name # DqColumns[c].name}

NthFirst(m) == CHOOSE f \in FirstOfName : Cardinality({g \in FirstOfName : g < f}) = m - 1

LastOfName(c) == CHOOSE d \in c..Len(DqColumns) :
                    /\ DqColumns[d].name = DqColumns[c].name
                    /\ \A e \in (d + 1)..Len(DqColumns) :
                        DqColumns[e].name # DqColumns[c].name

\* C7 as claimed: every decoded row is one record with exactly one field
\* per column, in column order, also when columns share a name; one record
\* per row, in row order.
C7_OneFieldPerColumn ==
    (Decoded /\ dq_result.ok) =>
        /\ Len(dq_result.value.val) = Len(DqRows)
        /\ \A r \in 1..Len(DqRows) :
            /\ Len(dq_result.value.val[r].val) = Len(DqColumns)
            /\ \A c \in 1..Len(DqColumns) :
                dq_result.value.val[r].val[c].col = DqColumns[c].name

\* C7 amended: one record per row, in row order; a record has one field per
\* distinct column name, at the place of the first column of that name and
\* with the value of the last one; with pairwise distinct names that is one
\* field per column, in column order.
C7_OneFieldPerDistinctName ==
    (Decoded /\ dq_result.ok) =>
        /\ dq_result.value.tag = "list"
        /\ Len(dq_result.value.val) = Len(DqRows)
        /\ \A r \in 1..Len(DqRows) :
            LET rec == dq_result.value.val[r]
            IN  /\ rec.tag = "record"
                /\ Len(rec.val) = Cardinality(FirstOfName)
                /\ \A m \in 1..Len(rec.val) :
                    /\ rec.val[m].col = DqColumns[NthFirst(m)].name
                    /\ rec.val[m].val =
                        DecodeCell(DqColumns[LastOfName(NthFirst(m))].type,
                                   DqRows[r][LastOfName(NthFirst(m))])
                /\ Cardinality(FirstOfName) = Len(DqColumns) =>
                    \A c \in 1..Len(DqColumns) :
                        /\ rec.val[c].col = DqColumns[c].name
                        /\ rec.val[c].val = DecodeCell(DqColumns[c].type, DqRows[r][c])

\* Two rows of two columns of the same name and different types decoded.
C7_Witness ==
    /\ Decoded
    /\ dq_result.ok
    /\ Len(DqRows) = 2
    /\ Len(DqColumns) = 2
    /\ DqColumns[1].name = DqColumns[2].name
    /\ DqColumns[1].type # DqColumns[2].type
    /\ Len(dq_result.value.val) = 2

\* C9 as claimed: a result with a column of an unsupported type, whatever
\* its number of rows, fails with the error naming the column and the type
\* (a broken row stream set aside).
C9_UnsupportedAlwaysFails ==
    (Decoded /\ ~dq_response.tail_err /\ Unsupported # {}) =>
        /\ ~dq_result.ok
        /\ \E c \in Unsupported : dq_result.err = UnsupportedTypeError(DqColumns[c])

\* C9 amended: with at least one row, the result fails with the error
\* naming the first unsupported column and its type; with no row, no such
\* error is raised and the result is the empty list (or the error of the
\* broken stream); no record that lacks the column is ever returned.
C9_UnsupportedFailsOnFirstRow ==
    (Decoded /\ Unsupported # {}) =>
        LET first == CHOOSE c \in Unsupported : \A d \in Unsupported : c <= d
        IN  /\ Len(DqRows) >= 1 =>
                dq_result = Err(UnsupportedTypeError(DqColumns[first]))
            /\ Len(DqRows) = 0 =>
                dq_result = IF dq_response.tail_err
                            THEN Err(from_pg_error(dq_response.err))
                            ELSE Ok(Value_list(<<>>))
            /\ dq_result.ok => dq_result.value = Value_list(<<>>)

\* Two rows whose second column, after a supported one, is unsupported.
C9_Witness ==
    /\ Decoded
    /\ Len(DqRows) = 2
    /\ Len(DqColumns) = 2
    /\ Unsupported = {2}
    /\ dq_result = Err(UnsupportedTypeError(DqColumns[2]))

====
